---- MODULE Spec2Model ----
(***************************************************************************)
(* Model of theodore.py: a long-polling pub-sub server.                    *)
(*                                                                         *)
(* The program runs on one asyncio event loop.  A step of the model is one *)
(* uninterrupted run of a callback or of a task between two suspension     *)
(* points.  Futures are modelled per task: a task owns at most one pending *)
(* future of Channel.get_next at a time, so the deque Channel.waiters is a *)
(* sequence of task ids and the state of the future is a field of the task.*)
(*                                                                         *)
(* The request handlers get, post and get_multichannel are the inputs; a   *)
(* request whose start date does not match (412) changes nothing and is    *)
(* left out.  The stats request is an input too; the variable stats holds  *)
(* the body of its last answer.                                            *)
(*                                                                         *)
(* Library semantics used (asyncio of the Python versions that accept the  *)
(* loop= argument of wait_for, 3.5 to 3.9):                                *)
(*  - wait_for(coro, None) awaits the coroutine in place;                  *)
(*  - wait_for(coro, T) wraps the coroutine in a task that starts on a     *)
(*    later loop iteration, and on timeout cancels it and raises           *)
(*    asyncio.TimeoutError (at once in 3.5/3.6, after the cancelled task   *)
(*    has finished in 3.7+: both are outcomes of the model);               *)
(*  - wait(coros, timeout, FIRST_COMPLETED) wraps each coroutine in a task,*)
(*    returns (done, pending) and cancels nothing;                         *)
(*  - Future.set_result schedules the wake-up of the awaiting task, it     *)
(*    does not run it.                                                     *)
(***************************************************************************)
EXTENDS Integers, Sequences, FiniteSets, TLC

VARIABLES channels, tasks, multis, pushed, stats

vars == <<channels, tasks, multis, pushed, stats>>

(* ------------------------------ bounds -------------------------------- *)
MaxPush == 3
MaxWaitPush == 2
MaxTasks == 2

(* ------------------------------ inputs -------------------------------- *)
Names == {"chA", "chB"}
Data == {"a", "b"}
Tasks == 1..MaxTasks
Multis == {1}

\* The min_id of a request: the query-string token, or None when absent.
Sel(kind, n) == [kind |-> kind, n |-> n]
SelNext == Sel("next", 0)
SelNaN == Sel("NaN", 0)
SelNone == Sel("None", 0)
SelBad == Sel("bad", 0)
IntSels == {Sel("int", 1), Sel("int", 2)}
StrSels == {SelNext, SelNaN, SelBad} \cup IntSels
\* A token int() parses to a negative number, such as '-1'.
SelNeg == Sel("int", -1)
AllSels == StrSels \cup {SelNone, SelNeg}
WaitSels == {SelNext}
WaitNames == {"chA"}
WaitData == {"a"}

(* ------------------------------ Message ------------------------------- *)
Message(channel_name, msg_id, data) ==
    [channel_name |-> channel_name, msg_id |-> msg_id, data |-> data]

NoMessage == Message("", 0, "")

(* ------------------------------ Channel ------------------------------- *)
Channel(name) ==
    [name |-> name, next_id |-> 0, messages |-> <<>>, waiters |-> <<>>]

\* A get_channel that stores the new Channel it was given, existing entry or not.
get_channel_fresh(chs, channel_name) ==
    [n \in DOMAIN chs \cup {channel_name} |->
        IF n = channel_name THEN Channel(n) ELSE chs[n]]

\* self.channels.setdefault(channel_name, Channel(channel_name))
get_channel(chs, channel_name) ==
    IF channel_name \in DOMAIN chs THEN chs
    ELSE chs @@ (channel_name :> Channel(channel_name))

\* A counter that returns the id without incrementing it.
get_next_id_stale(c) == c.next_id

\* self.next_id += 1; return self.next_id
get_next_id(c) == c.next_id + 1

\* A push that keeps the newest message only.
push_evicting(c, data) ==
    LET id == get_next_id(c)
    IN [c EXCEPT !.next_id = id, !.messages = (id :> Message(c.name, id, data))]

\* Channel.push without the loop over the waiters (see Push).
push(c, data) ==
    LET id == get_next_id(c)
        message == Message(c.name, id, data)
    IN [c EXCEPT !.next_id = id, !.messages = (id :> message) @@ @]

\* A push that sets the result of every future of the registry, done or not.
set_result_always(tk, message) ==
    [tk EXCEPT !.fut = "result", !.futmsg = message]

\* A push that gives its message to the futures that already have a result.
set_result_latest(tk, message) ==
    IF tk.fut \in {"pending", "result"}
    THEN [tk EXCEPT !.fut = "result", !.futmsg = message]
    ELSE tk

\* if not fut.done(): fut.set_result(message)
set_result(tk, message) ==
    IF tk.fut = "pending"
    THEN [tk EXCEPT !.fut = "result", !.futmsg = message]
    ELSE tk

Range(s) == {s[i] : i \in 1..Len(s)}

\* A get_next that leaves its future in the deque.
RemoveNothing(s, t) == s

\* deque.remove(fut): removes the first occurrence.
Remove(s, t) == SelectSeq(s, LAMBDA x : x # t)

(* ------------------------------- tasks -------------------------------- *)
\* pc:      idle       the slot is unused
\*          created    child coroutine of get_multiple wrapped by wait(), not started
\*          sched      coroutine wrapped in a task by wait_for(.., T), not started
\*          wait       suspended in `await fut` of get_next
\*          cancelling cancelled by wait_for after the timeout, not yet run
\*          innerdone  the task of wait_for(.., T) has a result, get not resumed
\*          done       get has returned or raised
\* fut:     none | pending | result | cancelled  (the Future of get_next)
\* n0, n1, born are history fields: next_id of the channel when get was
\* called, when the coroutine of get_next / get_by_id started, and when the
\* current future was appended to the waiters.
IdleTask ==
    [owner |-> 0, ch |-> "", sel |-> SelNext, tmo |-> FALSE, pc |-> "idle",
     mode |-> "", target |-> 0, fut |-> "none", futmsg |-> NoMessage,
     born |-> -1, n0 |-> -1, n1 |-> -1, timer |-> FALSE,
     outcome |-> "none", res |-> NoMessage]

\* int(min_id) is defined on the numeric tokens only.
IntParses(sel) == sel.kind = "int"
IntOf(sel) == sel.n

\* `except TimeoutError` names the builtin; wait_for raises
\* asyncio.TimeoutError, a different class before Python 3.11.
CaughtByGet == "builtins.TimeoutError"
RaisedByWaitFor == "asyncio.TimeoutError"
get_on_timeout == IF RaisedByWaitFor = CaughtByGet THEN "absent" ELSE "TimeoutError"

\* The coroutine handed to wait_for returns message m.
Return(tk, m) ==
    IF tk.tmo
    THEN [tk EXCEPT !.pc = "innerdone", !.fut = "none", !.futmsg = NoMessage,
                    !.born = -1, !.res = m]
    ELSE [tk EXCEPT !.pc = "done", !.fut = "none", !.futmsg = NoMessage,
                    !.born = -1, !.outcome = "msg", !.res = m]

\* A get_by_id that returns the first message delivered, whatever its id.
satisfied_any(tk, message) == TRUE

\* if message.msg_id >= msg_id: return message  (get_next returns any message)
satisfied(tk, message) == tk.mode = "next" \/ message.msg_id >= tk.target

\* A get_next that answers with the newest stored message when there is one.
get_next_replay(c, t, tk) ==
    IF c.next_id \in DOMAIN c.messages
    THEN [chan |-> c, task |-> Return(tk, c.messages[c.next_id])]
    ELSE [chan |-> [c EXCEPT !.waiters = Append(@, t)],
          task |-> [tk EXCEPT !.pc = "wait", !.fut = "pending",
                              !.futmsg = NoMessage, !.born = c.next_id]]

\* Channel.get_next up to `await fut`.
get_next(c, t, tk) ==
    [chan |-> [c EXCEPT !.waiters = Append(@, t)],
     task |-> [tk EXCEPT !.pc = "wait", !.fut = "pending",
                         !.futmsg = NoMessage, !.born = c.next_id]]

\* A get_by_id that answers from the store with the latest message.
get_by_id_latest(c, t, tk) ==
    IF tk.target \in DOMAIN c.messages
    THEN [chan |-> c, task |-> Return(tk, c.messages[c.next_id])]
    ELSE get_next(c, t, tk)

\* Channel.get_by_id up to its return or its first suspension.
get_by_id(c, t, tk) ==
    IF tk.target \in DOMAIN c.messages
    THEN [chan |-> c, task |-> Return(tk, c.messages[tk.target])]
    ELSE get_next(c, t, tk)

\* First step of the coroutine chosen by TheodoreServer.get.
RunCoroutine(c, t, tk) ==
    LET tk1 == [tk EXCEPT !.n1 = c.next_id]
    IN IF tk.mode = "next" THEN get_next(c, t, tk1) ELSE get_by_id(c, t, tk1)

\* TheodoreServer.get up to its first suspension.
get(chs, t, owner, channel_name, min_id, timeout) ==
    LET chs1 == get_channel(chs, channel_name)
        channel == chs1[channel_name]
        tk0 == [IdleTask EXCEPT !.owner = owner, !.ch = channel_name,
                                !.sel = min_id, !.tmo = timeout,
                                !.n0 = channel.next_id]
    IN IF min_id.kind \in {"next", "NaN"}
       THEN LET tk1 == [tk0 EXCEPT !.mode = "next"]
            IN IF timeout THEN [chans |-> chs1, task |-> [tk1 EXCEPT !.pc = "sched"]]
               ELSE LET r == RunCoroutine(channel, t, tk1)
                    IN [chans |-> [chs1 EXCEPT ![channel_name] = r.chan], task |-> r.task]
       ELSE IF min_id.kind = "None" \/ IntParses(min_id)
       THEN LET tk1 == [tk0 EXCEPT !.mode = "byid",
                           !.target = IF min_id.kind = "None"
                                      THEN channel.next_id - 1 ELSE IntOf(min_id)]
            IN IF timeout THEN [chans |-> chs1, task |-> [tk1 EXCEPT !.pc = "sched"]]
               ELSE LET r == RunCoroutine(channel, t, tk1)
                    IN [chans |-> [chs1 EXCEPT ![channel_name] = r.chan], task |-> r.task]
       ELSE [chans |-> chs1,
             task |-> [tk0 EXCEPT !.pc = "done", !.outcome = "ValueError"]]

(* --------------------------- get_multiple ----------------------------- *)
\* pc: idle | created (children wrapped by wait(), not started) | waiting | done
\* status is the HTTP status of get_multichannel (0 while there is none).
IdleMulti ==
    [pc |-> "idle", chans |-> <<>>, tmo |-> FALSE, timer |-> FALSE,
     outcome |-> "none", res |-> NoMessage, status |-> 0]

Children(g) == {t \in Tasks : tasks[t].pc # "idle" /\ tasks[t].owner = g}

\* A get_multiple that takes the result of any of its tasks, done or not.
AllChildren(g) == Children(g)

\* done, _ = await wait(...): the children that are done when get_multiple resumes.
DoneChildren(g) == {t \in Children(g) : tasks[t].pc = "done"}

FreeSlots == {t \in Tasks : tasks[t].pc = "idle"}
NextFree == CHOOSE t \in FreeSlots : \A u \in FreeSlots : t <= u

\* The status get and get_multichannel answer with.
StatusOf(outcome) ==
    IF outcome = "msg" THEN 200 ELSE IF outcome = "absent" THEN 404 ELSE 500

(* ------------------------------ get_stats ----------------------------- *)
\* The body of the last answer to a stats request (stats holds it), or none.
NoStats == [name |-> "", subscribers |-> -1, messages |-> -1]

\* get_stats: get_channel, then name, len(channel.waiters), len(channel.messages)
get_stats(chs, channel_name) ==
    LET chs1 == get_channel(chs, channel_name)
        channel == chs1[channel_name]
    IN [chans |-> chs1,
        body |-> [name |-> channel.name,
                  subscribers |-> Len(channel.waiters),
                  messages |-> Cardinality(DOMAIN channel.messages)]]

(* ------------------------------ actions ------------------------------- *)
Init ==
    /\ channels = <<>>
    /\ tasks = [t \in Tasks |-> IdleTask]
    /\ multis = [g \in Multis |-> IdleMulti]
    /\ pushed = [n \in Names |-> <<>>]
    /\ stats = NoStats

\* Number of pushes so far, over all channels.
TotalPushed == LET Sum[S \in SUBSET Names] ==
                     IF S = {} THEN 0
                     ELSE LET n == CHOOSE x \in S : TRUE
                          IN Len(pushed[n]) + Sum[S \ {n}]
               IN Sum[Names]

\* A push that hands its message to the first pending waiter only, as a
\* queue would.
PushToFirst(channel_name, data) ==
    LET chs1 == get_channel(channels, channel_name)
        c == chs1[channel_name]
        c2 == push(c, data)
        message == c2.messages[c2.next_id]
        pending == {i \in 1..Len(c.waiters) : tasks[c.waiters[i]].fut = "pending"}
        first == {c.waiters[i] : i \in {j \in pending : \A k \in pending : j <= k}}
    IN /\ TotalPushed < MaxPush
       /\ channels' = [chs1 EXCEPT ![channel_name] = c2]
       /\ tasks' = [t \in Tasks |->
                      IF t \in first
                      THEN set_result(tasks[t], message)
                      ELSE tasks[t]]
       /\ pushed' = [pushed EXCEPT ![channel_name] = Append(@, data)]
       /\ UNCHANGED <<multis, stats>>

\* A push that sets the result of the waiters of every channel.
PushBroadcast(channel_name, data) ==
    LET chs1 == get_channel(channels, channel_name)
        c == chs1[channel_name]
        c2 == push(c, data)
        message == c2.messages[c2.next_id]
    IN /\ TotalPushed < MaxPush
       /\ channels' = [chs1 EXCEPT ![channel_name] = c2]
       /\ tasks' = [t \in Tasks |-> set_result(tasks[t], message)]
       /\ pushed' = [pushed EXCEPT ![channel_name] = Append(@, data)]
       /\ UNCHANGED <<multis, stats>>

\* A push that empties the registry of the channel once it has set the results.
PushClearing(channel_name, data) ==
    LET chs1 == get_channel(channels, channel_name)
        c == chs1[channel_name]
        c2 == push(c, data)
        message == c2.messages[c2.next_id]
    IN /\ TotalPushed < MaxPush
       /\ channels' = [chs1 EXCEPT ![channel_name] = [c2 EXCEPT !.waiters = <<>>]]
       /\ tasks' = [t \in Tasks |->
                      IF t \in Range(c.waiters)
                      THEN set_result(tasks[t], message)
                      ELSE tasks[t]]
       /\ pushed' = [pushed EXCEPT ![channel_name] = Append(@, data)]
       /\ UNCHANGED <<multis, stats>>

\* post / TheodoreServer.push / Channel.push
Push(channel_name, data) ==
    LET chs1 == get_channel(channels, channel_name)
        c == chs1[channel_name]
        c2 == push(c, data)
        message == c2.messages[c2.next_id]
    IN /\ TotalPushed < MaxPush
       /\ channels' = [chs1 EXCEPT ![channel_name] = c2]
       /\ tasks' = [t \in Tasks |->
                      IF t \in Range(c.waiters)
                      THEN set_result(tasks[t], message)
                      ELSE tasks[t]]
       /\ pushed' = [pushed EXCEPT ![channel_name] = Append(@, data)]
       /\ UNCHANGED <<multis, stats>>

\* get (the request handler) calling TheodoreServer.get; no_wait gives timeout .1
HttpGet(t, channel_name, min_id, no_wait) ==
    /\ FreeSlots # {} /\ t = NextFree
    /\ LET r == get(channels, t, 0, channel_name, min_id, no_wait)
       IN /\ channels' = r.chans
          /\ tasks' = [tasks EXCEPT ![t] = r.task]
    /\ UNCHANGED <<multis, pushed, stats>>

\* First step of the task wait_for(.., T) made of the coroutine.
TaskStart(t) ==
    /\ tasks[t].pc = "sched"
    /\ LET r == RunCoroutine(channels[tasks[t].ch], t, tasks[t])
       IN /\ channels' = [channels EXCEPT ![tasks[t].ch] = r.chan]
          /\ tasks' = [tasks EXCEPT ![t] = r.task]
    /\ UNCHANGED <<multis, pushed, stats>>

\* The task awaiting fut in get_next resumes with the result of fut:
\* the finally clause, then the caller (get_by_id loops or returns).
Wake(t) ==
    /\ tasks[t].pc = "wait" /\ tasks[t].fut = "result"
    /\ LET tk == tasks[t]
           c == channels[tk.ch]
           c1 == [c EXCEPT !.waiters = Remove(@, t)]
           message == tk.futmsg
           r == IF satisfied(tk, message)
                THEN [chan |-> c1, task |-> Return(tk, message)]
                ELSE get_next(c1, t, tk)
       IN /\ channels' = [channels EXCEPT ![tk.ch] = r.chan]
          /\ tasks' = [tasks EXCEPT ![t] = r.task]
    /\ UNCHANGED <<multis, pushed, stats>>

\* The call_later handle of wait_for fires.  It comes before the wake-up of
\* the task only when the future of get_next is still pending: the loop runs
\* its callbacks in the order they were scheduled.
TimerFire(t) ==
    /\ tasks[t].tmo /\ tasks[t].pc = "wait" /\ ~tasks[t].timer
    /\ tasks[t].fut = "pending"
    /\ tasks' = [tasks EXCEPT ![t].timer = TRUE]
    /\ UNCHANGED <<channels, multis, pushed, stats>>

\* wait_for resumes with its task done: return fut.result(), and the
\* finally clause cancels the timeout handle.
OuterReturn(t) ==
    /\ tasks[t].pc = "innerdone"
    /\ tasks' = [tasks EXCEPT ![t].pc = "done", ![t].outcome = "msg",
                              ![t].timer = FALSE]
    /\ UNCHANGED <<channels, multis, pushed, stats>>

\* wait_for resumes after the timer with its task not done: fut.cancel() and
\* TimeoutError, raised at once (early) or after the task has finished.
OuterTimeout(t, early) ==
    /\ tasks[t].pc = "wait" /\ tasks[t].timer
    /\ tasks' = [tasks EXCEPT
                   ![t].pc = "cancelling", ![t].timer = FALSE,
                   ![t].fut = IF @ = "pending" THEN "cancelled" ELSE @,
                   ![t].outcome = IF early THEN get_on_timeout ELSE "none"]
    /\ UNCHANGED <<channels, multis, pushed, stats>>

\* The cancelled task runs: CancelledError at `await fut`, the finally clause.
InnerCancelled(t) ==
    /\ tasks[t].pc = "cancelling"
    /\ channels' = [channels EXCEPT ![tasks[t].ch].waiters = Remove(@, t)]
    /\ tasks' = [tasks EXCEPT
                   ![t].pc = "done", ![t].fut = "none", ![t].futmsg = NoMessage,
                   ![t].born = -1,
                   ![t].outcome = IF @ = "none" THEN get_on_timeout ELSE @]
    /\ UNCHANGED <<multis, pushed, stats>>

\* get (the request handler) with the name 'stats', and get_stats
HttpGetStats(channel_name) ==
    /\ LET r == get_stats(channels, channel_name)
       IN /\ channels' = r.chans
          /\ stats' = r.body
    /\ UNCHANGED <<tasks, multis, pushed>>

\* The k lowest free slots.
LowestFree(k) == {t \in FreeSlots : Cardinality({u \in FreeSlots : u < t}) < k}

\* TheodoreServer.get_multiple up to `await wait(...)`: wait() wraps one
\* get coroutine per entry in a task, and raises ValueError on no entry.
get_multiple(g, chans, no_wait) ==
    IF Cardinality(DOMAIN chans) = 0
    THEN /\ multis' = [multis EXCEPT ![g].pc = "done", ![g].outcome = "ValueError",
                                     ![g].status = StatusOf("ValueError")]
         /\ UNCHANGED tasks
    ELSE /\ Cardinality(DOMAIN chans) <= Cardinality(FreeSlots)
         /\ LET slots == LowestFree(Cardinality(DOMAIN chans))
                name == CHOOSE f \in [slots -> DOMAIN chans] :
                           \A a, b \in slots : a # b => f[a] # f[b]
            IN tasks' = [t \in Tasks |->
                           IF t \in slots
                           THEN [IdleTask EXCEPT !.owner = g, !.ch = name[t],
                                                 !.sel = chans[name[t]],
                                                 !.pc = "created"]
                           ELSE tasks[t]]
         /\ multis' = [multis EXCEPT ![g].pc = "created", ![g].chans = chans,
                                     ![g].tmo = no_wait]

\* A get_multichannel without the test of len(channels).
HttpGetMultichannelNoCheck(g, chans, no_wait) ==
    /\ multis[g].pc = "idle"
    /\ get_multiple(g, chans, no_wait)
    /\ UNCHANGED <<channels, pushed, stats>>

\* get_multichannel: 422 on an empty mapping, else get_multiple.
HttpGetMultichannel(g, chans, no_wait) ==
    /\ multis[g].pc = "idle"
    /\ IF Cardinality(DOMAIN chans) = 0
       THEN /\ multis' = [multis EXCEPT ![g].pc = "done", ![g].status = 422]
            /\ UNCHANGED tasks
       ELSE get_multiple(g, chans, no_wait)
    /\ UNCHANGED <<channels, pushed, stats>>

\* The tasks made by wait() take their first step, one after the other:
\* each runs self.get(channel_name, min_id) up to its first suspension.
MultiStart(g) ==
    /\ multis[g].pc = "created"
    /\ LET r(t) == get(channels, t, g, tasks[t].ch, tasks[t].sel, FALSE)
           touched == {tasks[t].ch : t \in Children(g)}
           child(n) == CHOOSE t \in Children(g) : tasks[t].ch = n
       IN /\ channels' = [n \in DOMAIN channels \cup touched |->
                            IF n \in touched THEN r(child(n)).chans[n]
                            ELSE channels[n]]
          /\ tasks' = [t \in Tasks |->
                         IF t \in Children(g) THEN r(t).task ELSE tasks[t]]
    /\ multis' = [multis EXCEPT ![g].pc = "waiting"]
    /\ UNCHANGED <<pushed, stats>>

\* The timeout handle of wait() fires before any child is done.
MultiTimerFire(g) ==
    /\ multis[g].pc = "waiting" /\ multis[g].tmo /\ ~multis[g].timer
    /\ DoneChildren(g) = {}
    /\ multis' = [multis EXCEPT ![g].timer = TRUE]
    /\ UNCHANGED <<channels, tasks, pushed, stats>>

\* get_multiple resumes with a child done: `for task in done: return task.result()`
\* (done is a set, any of its tasks may come first); get_multichannel answers.
MultiReturn(g, t) ==
    /\ multis[g].pc = "waiting"
    /\ t \in DoneChildren(g)
    /\ multis' = [multis EXCEPT ![g].pc = "done", ![g].timer = FALSE,
                                ![g].outcome = tasks[t].outcome,
                                ![g].res = tasks[t].res,
                                ![g].status = StatusOf(tasks[t].outcome)]
    /\ UNCHANGED <<channels, tasks, pushed, stats>>

\* get_multiple resumes after the timeout with no child done: return None
MultiTimeout(g) ==
    /\ multis[g].pc = "waiting" /\ multis[g].timer
    /\ DoneChildren(g) = {}
    /\ multis' = [multis EXCEPT ![g].pc = "done", ![g].timer = FALSE,
                                ![g].outcome = "absent",
                                ![g].status = StatusOf("absent")]
    /\ UNCHANGED <<channels, tasks, pushed, stats>>

Mappings == UNION {[S -> StrSels] : S \in SUBSET Names}

\* Concurrent requests for the next message of one channel, as many as
\* there are task slots, and the pushes to that channel.
NextWaiters ==
    \/ \E n \in WaitNames, d \in WaitData : TotalPushed < MaxWaitPush /\ Push(n, d)
    \/ \E t \in Tasks, n \in WaitNames, s \in WaitSels, w \in BOOLEAN : HttpGet(t, n, s, w)
    \/ \E t \in Tasks : TaskStart(t)
    \/ \E t \in Tasks : Wake(t)
    \/ \E t \in Tasks : TimerFire(t)
    \/ \E t \in Tasks : OuterReturn(t)
    \/ \E t \in Tasks, early \in BOOLEAN : OuterTimeout(t, early)
    \/ \E t \in Tasks : InnerCancelled(t)

SpecWaiters == Init /\ [][NextWaiters]_vars

\* One single-channel request, of any channel, min_id and no_wait, and the
\* pushes to all channels.
NextGet ==
    \/ \E n \in Names, d \in Data : Push(n, d)
    \/ \E n \in Names, s \in AllSels, w \in BOOLEAN : HttpGet(1, n, s, w)
    \/ \E t \in Tasks : TaskStart(t)
    \/ \E t \in Tasks : Wake(t)
    \/ \E t \in Tasks : TimerFire(t)
    \/ \E t \in Tasks : OuterReturn(t)
    \/ \E t \in Tasks, early \in BOOLEAN : OuterTimeout(t, early)
    \/ \E t \in Tasks : InnerCancelled(t)

SpecGet == Init /\ [][NextGet]_vars

\* Multi-channel requests only, any mapping of channels to min_id tokens.
NextMulti ==
    \/ \E n \in Names, d \in Data : Push(n, d)
    \/ \E t \in Tasks : Wake(t)
    \/ \E g \in Multis, m \in Mappings, w \in BOOLEAN : HttpGetMultichannel(g, m, w)
    \/ \E g \in Multis : MultiStart(g)
    \/ \E g \in Multis : MultiTimerFire(g)
    \/ \E g \in Multis, t \in Tasks : MultiReturn(g, t)
    \/ \E g \in Multis : MultiTimeout(g)

SpecMulti == Init /\ [][NextMulti]_vars

BrokerMappings == UNION {[S -> WaitSels] : S \in SUBSET Names}

\* Every kind of request together, on all channels: pushes, single-channel
\* requests for the next message, multi-channel requests, stats requests.
NextBroker ==
    \/ \E n \in Names, d \in WaitData : TotalPushed < MaxWaitPush /\ Push(n, d)
    \/ \E t \in Tasks, n \in Names, s \in WaitSels : HttpGet(t, n, s, FALSE)
    \/ \E t \in Tasks : Wake(t)
    \/ \E g \in Multis, m \in BrokerMappings, w \in BOOLEAN : HttpGetMultichannel(g, m, w)
    \/ \E g \in Multis : MultiStart(g)
    \/ \E g \in Multis : MultiTimerFire(g)
    \/ \E g \in Multis, t \in Tasks : MultiReturn(g, t)
    \/ \E g \in Multis : MultiTimeout(g)
    \/ \E n \in Names : HttpGetStats(n)

SpecBroker == Init /\ [][NextBroker]_vars

TypeOK ==
    /\ DOMAIN channels \subseteq Names
    /\ \A t \in Tasks : tasks[t].pc \in
          {"idle", "created", "sched", "wait", "cancelling", "innerdone", "done"}

(* ------------------------------ claims -------------------------------- *)
Registered(t) ==
    \E n \in DOMAIN channels : t \in Range(channels[n].waiters)

Started(t) == tasks[t].n1 >= 0

\* C1: in every channel the i-th push was given id i: next_id counts the
\* pushes, the ids in the store are exactly 1..next_id, and the message
\* stored under i is the one made from the i-th pushed payload.
C1_IdsDenseInPushOrder ==
    \A n \in DOMAIN channels :
        LET c == channels[n]
        IN /\ c.next_id = Len(pushed[n])
           /\ DOMAIN c.messages = 1..c.next_id
           /\ \A i \in 1..c.next_id : c.messages[i] = Message(n, i, pushed[n][i])

C1_Witness ==
    \E n \in DOMAIN channels :
        /\ channels[n].next_id = 3
        /\ channels[n].messages[1].data # channels[n].messages[2].data

\* The smallest id >= k pushed after a get_by_id(k) that missed the store.
FirstSatisfying(t) ==
    IF tasks[t].target > tasks[t].n1 + 1 THEN tasks[t].target ELSE tasks[t].n1 + 1

MissedStore(t) ==
    /\ tasks[t].mode = "byid" /\ Started(t)
    /\ tasks[t].target \notin 1..tasks[t].n1

\* C2: get_by_id(k) called while k is not in the store returns the message
\* of the first push with id >= k made after the call, and once that push
\* has happened the call is not left suspended on a handle that only a
\* further push can resolve.
C2_ReturnsFirstSatisfyingPush ==
    \A t \in Tasks :
        MissedStore(t) =>
            /\ tasks[t].pc \in {"innerdone", "done"} /\ tasks[t].res # NoMessage
                  => tasks[t].res.msg_id = FirstSatisfying(t)
            /\ tasks[t].pc = "wait" /\ tasks[t].fut = "pending"
                  => channels[tasks[t].ch].next_id < FirstSatisfying(t)

\* C3: get with min_id None on a channel that has a message returns the
\* message with the highest id of the call time, and never suspends.
C3_NoneReturnsLatestAtOnce ==
    \A t \in Tasks :
        tasks[t].pc # "idle" /\ tasks[t].sel = SelNone /\ tasks[t].n0 >= 1 =>
            /\ tasks[t].pc \notin {"wait", "cancelling"}
            /\ tasks[t].outcome = "msg" => tasks[t].res.msg_id = tasks[t].n0

\* The step is a push to channel n, and m is the message it made.
PushedTo(n) == pushed'[n] # pushed[n]
Pushed(n) == channels'[n].messages[channels'[n].next_id]
WaitersOf(n) == IF n \in DOMAIN channels THEN Range(channels[n].waiters) ELSE {}

\* C4 as stated: a push gives its message to every waiter that is in the
\* registry at the moment of the push.
C4_PushResolvesAllRegistered ==
    [][\A n \in Names : PushedTo(n) =>
          \A t \in WaitersOf(n) :
              tasks'[t].fut = "result" /\ tasks'[t].futmsg = Pushed(n)]_vars

\* C4 amended: a push gives its message to every waiter of the registry
\* that is not yet done, leaves the done ones (resolved by an earlier push
\* or cancelled) and every task outside the registry as they are, and a
\* future only ever holds the message of the first push made after it was
\* registered.
C4_PushResolvesPendingRegistered ==
    /\ [][\A n \in Names : PushedTo(n) =>
            \A t \in Tasks :
                IF t \in WaitersOf(n) /\ tasks[t].fut = "pending"
                THEN tasks'[t].fut = "result" /\ tasks'[t].futmsg = Pushed(n)
                ELSE tasks'[t] = tasks[t]]_vars
    /\ [](\A t \in Tasks :
            /\ tasks[t].fut = "result" =>
                  tasks[t].futmsg = channels[tasks[t].ch].messages[tasks[t].born + 1]
            /\ tasks[t].fut = "pending" =>
                  tasks[t].born = channels[tasks[t].ch].next_id)

\* Two waiters resolved by the same push, not yet run again.
C4_Witness ==
    \E t, u \in Tasks :
        /\ t # u
        /\ tasks[t].fut = "result" /\ tasks[u].fut = "result"
        /\ tasks[t].futmsg = tasks[u].futmsg
        /\ tasks[t].futmsg.msg_id = 1
        /\ channels[tasks[t].ch].waiters = <<t, u>>

\* The event loop runs every callback that is ready and every timer that is
\* due; nothing obliges a client to push or to send a request.
FairMulti ==
    /\ \A t \in Tasks : WF_vars(Wake(t))
    /\ \A g \in Multis : WF_vars(MultiStart(g))
    /\ \A g \in Multis : WF_vars(MultiTimerFire(g))
    /\ \A g \in Multis : WF_vars(\E t \in Tasks : MultiReturn(g, t))
    /\ \A g \in Multis : WF_vars(MultiTimeout(g))

FairSpecMulti == SpecMulti /\ FairMulti

\* C5: once get_multiple has returned, every future its children registered
\* is eventually out of the registries, pushes or no pushes.
C5_LosersEventuallyDeregistered ==
    \A g \in Multis :
        (multis[g].pc = "done") ~> (\A t \in Children(g) : ~Registered(t))

\* The selector of child t admits message m.
Admits(t, m) ==
    IF tasks[t].sel.kind = "int" THEN m.msg_id >= tasks[t].sel.n
    ELSE m.msg_id > tasks[t].n0

\* C6: get_multiple over one or more channels ends with a result, and a
\* message it returns is the result of one of its children that are done, is a stored message of the channel that child
\* watches, which is a channel of the request, and is admitted by the
\* min_id given for that channel.
C6_MultipleReturnsOneCandidate ==
    \A g \in Multis :
        multis[g].pc = "done" /\ DOMAIN multis[g].chans # {} =>
            /\ multis[g].outcome # "none"
            /\ multis[g].outcome = "msg" =>
                 \E t \in Children(g) :
                    /\ tasks[t].pc = "done" /\ tasks[t].outcome = "msg"
                    /\ multis[g].res = tasks[t].res
                    /\ multis[g].res.channel_name = tasks[t].ch
                    /\ tasks[t].ch \in DOMAIN multis[g].chans
                    /\ multis[g].chans[tasks[t].ch] = tasks[t].sel
                    /\ multis[g].res =
                          channels[tasks[t].ch].messages[multis[g].res.msg_id]
                    /\ Admits(t, multis[g].res)

\* Both children have a message when get_multiple returns one of them.
C6_Witness ==
    \E g \in Multis : \E t, u \in Children(g) :
        /\ multis[g].pc = "done" /\ multis[g].outcome = "msg"
        /\ tasks[t].pc = "done" /\ tasks[u].pc = "done"
        /\ tasks[t].outcome = "msg" /\ tasks[u].outcome = "msg"
        /\ tasks[t].ch # tasks[u].ch
        /\ multis[g].res = tasks[t].res

\* C7: get_by_id(k) started while k is in the store never registers a
\* future nor suspends, and its result is the stored message with id k.
C7_StoredIdReturnedAtOnce ==
    \A t \in Tasks :
        tasks[t].mode = "byid" /\ Started(t) /\ tasks[t].target \in 1..tasks[t].n1 =>
            /\ tasks[t].pc \in {"innerdone", "done"}
            /\ ~Registered(t) /\ tasks[t].fut = "none"
            /\ tasks[t].res = channels[tasks[t].ch].messages[tasks[t].target]
            /\ tasks[t].res.msg_id = tasks[t].target
            /\ tasks[t].pc = "done" => tasks[t].outcome = "msg"

\* get_by_id(1) answered from a store that holds later messages too.
C7_Witness ==
    \E t \in Tasks :
        /\ tasks[t].mode = "byid" /\ tasks[t].target = 1 /\ tasks[t].n1 = 3
        /\ tasks[t].outcome = "msg" /\ tasks[t].res.msg_id = 1

\* C8: get(channel, "next", timeout=T) that ends without a push on the
\* channel since the call has returned None.
C8_TimeoutReturnsAbsent ==
    \A t \in Tasks :
        /\ tasks[t].sel = SelNext /\ tasks[t].tmo
        /\ tasks[t].outcome # "none"
        /\ channels[tasks[t].ch].next_id = tasks[t].n0
        => tasks[t].outcome = "absent"

C10_EmptyMultiRejected ==
    /\ [][\A g \in Multis :
            multis[g].pc = "idle" /\ multis'[g].pc # "idle"
            /\ DOMAIN multis'[g].chans = {}
            => /\ multis'[g].pc = "done"
               /\ multis'[g].status = 422
               /\ multis'[g].status # StatusOf("absent")
               /\ multis'[g].outcome = "none"
               /\ UNCHANGED <<channels, tasks>>]_vars
    /\ [](\A g \in Multis : DOMAIN multis[g].chans = {} => Children(g) = {})

C10_Witness ==
    \E g \in Multis : multis[g].pc = "done" /\ multis[g].status = 422

\* A token that is neither 'next' nor a non-negative integer.
InvalidToken(sel) ==
    sel.kind \in {"NaN", "bad"} \/ (sel.kind = "int" /\ sel.n < 0)

\* C11: get with a token that is neither 'next' nor a non-negative integer
\* does what get with 'next' does: it never raises because of the token, its
\* coroutine registers a future and suspends whatever the store holds, and
\* the message it returns is the first one pushed after the coroutine began.
C11_InvalidTokenBehavesAsNext ==
    \A t \in Tasks :
        tasks[t].pc # "idle" /\ InvalidToken(tasks[t].sel) =>
            /\ tasks[t].outcome # "ValueError"
            /\ tasks[t].pc = "wait" => Registered(t)
            /\ tasks[t].pc \in {"innerdone", "done"} /\ tasks[t].res # NoMessage
                  => tasks[t].res.msg_id = tasks[t].n1 + 1

\* C12: no step removes a channel, removes an id from a store or changes
\* the message stored under an id, and the message stored under id i of
\* channel n has channel name n and id i.
C12_StoreOnlyGrows ==
    /\ [][\A n \in DOMAIN channels :
            /\ n \in DOMAIN channels'
            /\ \A i \in DOMAIN channels[n].messages :
                  /\ i \in DOMAIN channels'[n].messages
                  /\ channels'[n].messages[i] = channels[n].messages[i]]_vars
    /\ [](\A n \in DOMAIN channels : \A i \in DOMAIN channels[n].messages :
            /\ channels[n].messages[i].channel_name = n
            /\ channels[n].messages[i].msg_id = i)

\* A store of two messages after a get, a get_multiple and a stats request
\* on the channel: the get and the get_multiple returned message 1.
C12_Witness ==
    \E n \in DOMAIN channels, t \in Tasks, g \in Multis :
        /\ DOMAIN channels[n].messages = {1, 2}
        /\ tasks[t].owner = 0 /\ tasks[t].ch = n
        /\ tasks[t].outcome = "msg" /\ tasks[t].res = channels[n].messages[1]
        /\ multis[g].outcome = "msg" /\ multis[g].res = channels[n].messages[1]
        /\ stats.name = n /\ stats.messages = 2

\* The tasks whose future is in the registry of channel n and has a result.
ResolvedIn(n) ==
    {t \in WaitersOf(n) : tasks[t].fut = "result"}

\* C13 as stated: the waiters a push resolves are out of the registry when
\* the push returns, and a stats answer does not count a waiter whose
\* future has a result.
C13_PushClearsResolved ==
    /\ [][\A n \in Names : PushedTo(n) =>
            \A t \in WaitersOf(n) :
                tasks[t].fut = "pending" => t \notin Range(channels'[n].waiters)]_vars
    /\ [][stats' # stats =>
            stats'.subscribers =
                Len(channels'[stats'.name].waiters)
                    - Cardinality(ResolvedIn(stats'.name))]_vars

\* C13 amended: a push leaves the registry of its channel as it is, so the
\* waiters it resolves are still in it when the push returns; a resolved
\* waiter leaves the registry in the step of its own task (the finally
\* clause of get_next); and a stats answer gives the length of the registry,
\* the resolved waiters that have not run yet included.
C13_ResolvedStayUntilTheyRun ==
    /\ [][\A n \in Names : PushedTo(n) =>
            /\ channels'[n].waiters =
                  IF n \in DOMAIN channels THEN channels[n].waiters ELSE <<>>
            /\ \A t \in WaitersOf(n) :
                  tasks[t].fut = "pending" =>
                      tasks'[t].fut = "result" /\ t \in Range(channels'[n].waiters)]_vars
    /\ [][\A t \in Tasks :
            tasks[t].fut = "result" /\ tasks'[t] # tasks[t] =>
                /\ tasks'[t].pc \notin {"wait", "cancelling"} =>
                      t \notin Range(channels'[tasks[t].ch].waiters)
                /\ tasks'[t].fut # "result"]_vars
    /\ [][stats' # stats =>
            /\ stats'.subscribers = Len(channels'[stats'.name].waiters)
            /\ stats'.subscribers >= Cardinality(ResolvedIn(stats'.name))
            /\ UNCHANGED <<tasks, multis, pushed>>]_vars

\* A stats answer that counts two waiters, both resolved by the last push
\* and neither run since.
C13_Witness ==
    \E n \in DOMAIN channels :
        /\ stats.name = n /\ stats.subscribers = 2
        /\ stats.messages = channels[n].next_id
        /\ Len(channels[n].waiters) = 2
        /\ \A t \in Range(channels[n].waiters) :
              /\ tasks[t].fut = "result"
              /\ tasks[t].futmsg.msg_id = channels[n].next_id

\* C14: a push leaves every registered future that is done (resolved by an
\* earlier push, or cancelled) as it is, the result of a future never
\* changes while the future is registered, and the message get_next hands
\* to its caller is the message of the first push made after the future
\* was appended to the registry.
C14_ResolvedAtMostOnce ==
    /\ [][\A n \in Names : PushedTo(n) =>
            \A t \in WaitersOf(n) :
                tasks[t].fut \in {"result", "cancelled"} =>
                    /\ tasks'[t] = tasks[t]
                    /\ tasks[t].fut = "result" =>
                          tasks'[t].futmsg.msg_id < Pushed(n).msg_id]_vars
    /\ [][\A t \in Tasks :
            tasks[t].fut = "result" =>
                /\ tasks'[t].fut = "result" => tasks'[t].futmsg = tasks[t].futmsg
                /\ tasks'[t].res # tasks[t].res =>
                      /\ tasks'[t].res = tasks[t].futmsg
                      /\ tasks'[t].res =
                            channels[tasks[t].ch].messages[tasks[t].born + 1]]_vars

\* After the second push the registry still holds a future resolved by the
\* first push and a future cancelled before the second.
C14_Witness ==
    \E n \in DOMAIN channels : \E t, u \in Range(channels[n].waiters) :
        /\ channels[n].next_id = 2
        /\ tasks[t].fut = "result" /\ tasks[t].born = 0
        /\ tasks[t].futmsg.msg_id = 1
        /\ tasks[u].fut = "cancelled" /\ tasks[u].born = 1

\* C15: get with 'next' never answers from the store: the first step of its
\* coroutine appends a future to the registry and suspends, whatever the
\* store holds, and the message the call returns has an id greater than the
\* next_id of the channel at the time of the call.
C15_NextIsFutureOnly ==
    /\ [][\A t \in Tasks :
            tasks'[t].sel = SelNext /\ ~Started(t) /\ tasks'[t].n1 >= 0 =>
                /\ tasks'[t].pc = "wait" /\ tasks'[t].fut = "pending"
                /\ t \in Range(channels'[tasks'[t].ch].waiters)]_vars
    /\ [](\A t \in Tasks :
            tasks[t].pc # "idle" /\ tasks[t].sel = SelNext =>
                /\ tasks[t].outcome # "ValueError"
                /\ tasks[t].res # NoMessage =>
                      /\ tasks[t].res.msg_id > tasks[t].n0
                      /\ tasks[t].res.msg_id > tasks[t].n1)

\* get with 'next' called on a store of two messages returned the third.
C15_Witness ==
    \E t \in Tasks :
        /\ tasks[t].sel = SelNext /\ tasks[t].n0 = 2
        /\ tasks[t].outcome = "msg" /\ tasks[t].res.msg_id = 3

\* C16: get with min_id None, called on a channel that has no message yet,
\* suspends, is not left waiting once the channel has had its first push,
\* and the message it returns is the message with id 1.
C16_NoneOnEmptyGetsFirstPush ==
    \A t \in Tasks :
        tasks[t].pc # "idle" /\ tasks[t].sel = SelNone /\ tasks[t].n0 = 0 =>
            /\ tasks[t].outcome # "ValueError"
            /\ tasks[t].res # NoMessage => tasks[t].res.msg_id = 1
            /\ tasks[t].pc = "wait" /\ tasks[t].fut = "pending"
                  => channels[tasks[t].ch].next_id = 0

\* C16 for the calls without timeout, whose coroutine starts within the call.
C16_NoneOnEmptyNoTimeout ==
    \A t \in Tasks :
        tasks[t].pc # "idle" /\ tasks[t].sel = SelNone /\ tasks[t].n0 = 0
        /\ ~tasks[t].tmo =>
            /\ tasks[t].target = -1 /\ tasks[t].n1 = 0
            /\ tasks[t].pc = "wait" \/ (tasks[t].pc = "done" /\ tasks[t].outcome = "msg")
            /\ tasks[t].pc = "wait" => Registered(t)
            /\ tasks[t].res # NoMessage => tasks[t].res.msg_id = 1
            /\ tasks[t].pc = "wait" /\ tasks[t].fut = "pending"
                  => channels[tasks[t].ch].next_id = 0

\* C17: a push to channel n leaves every other channel as it is (its
\* existence, next_id, store and registry) and every task waiting on
\* another channel as it is; and the message a future or a call on channel
\* b holds is a message of channel b.
C17_ChannelsIndependent ==
    /\ [][\A n \in Names : PushedTo(n) =>
            \A b \in Names \ {n} :
                /\ b \in DOMAIN channels' <=> b \in DOMAIN channels
                /\ b \in DOMAIN channels => channels'[b] = channels[b]
                /\ \A t \in Tasks : tasks[t].ch = b => tasks'[t] = tasks[t]]_vars
    /\ [](\A t \in Tasks :
            /\ tasks[t].futmsg # NoMessage =>
                  tasks[t].futmsg.channel_name = tasks[t].ch
            /\ tasks[t].res # NoMessage =>
                  tasks[t].res.channel_name = tasks[t].ch)

\* A call waits on one channel, still pending, while a later call on the
\* other channel has been resolved by a push.
C17_Witness ==
    \E t, u \in Tasks :
        /\ t < u /\ tasks[t].owner = 0 /\ tasks[u].owner = 0
        /\ tasks[t].ch # tasks[u].ch
        /\ tasks[t].pc = "wait" /\ tasks[t].fut = "pending" /\ Registered(t)
        /\ tasks[u].fut = "result"
        /\ channels[tasks[t].ch].next_id = 0

\* The names a push, a get, a child of get_multiple or the last stats
\* request has referred to.
Referenced ==
    {n \in Names : pushed[n] # <<>>}
        \cup {tasks[t].ch : t \in {u \in Tasks : tasks[u].n0 >= 0}}
        \cup ({stats.name} \cap Names)

\* C18: every name referred to has a channel; a channel is created only by
\* a step that refers to its name (a push, a stats request, a get), and is
\* created with next_id 0, an empty store and an empty registry, changed
\* only by what the same request does next (its push, or its future); and
\* a step keeps every existing channel with its name, its
\* next_id (one more after a push to it), its store and every registered
\* future whose task did not run in the step.
C18_ChannelsLazyAndKept ==
    /\ [](Referenced \subseteq DOMAIN channels)
    /\ [][\A n \in DOMAIN channels' \ DOMAIN channels :
            /\ \/ PushedTo(n)
               \/ stats' # stats /\ stats'.name = n
               \/ \E t \in Tasks : /\ tasks'[t].ch = n
                                    /\ tasks[t].n0 < 0 /\ tasks'[t].n0 >= 0
            /\ channels'[n].name = n
            /\ channels'[n].next_id = Len(pushed'[n]) /\ Len(pushed'[n]) <= 1
            /\ DOMAIN channels'[n].messages = 1..channels'[n].next_id
            /\ \A t \in Range(channels'[n].waiters) : tasks[t].n0 < 0]_vars
    /\ [][\A n \in DOMAIN channels :
            /\ n \in DOMAIN channels'
            /\ channels'[n].name = channels[n].name
            /\ channels'[n].next_id =
                  channels[n].next_id + (IF PushedTo(n) THEN 1 ELSE 0)
            /\ \A i \in DOMAIN channels[n].messages :
                  /\ i \in DOMAIN channels'[n].messages
                  /\ channels'[n].messages[i] = channels[n].messages[i]
            /\ \A t \in Range(channels[n].waiters) :
                  tasks'[t].pc \in {"wait", "cancelling"} =>
                      t \in Range(channels'[n].waiters)]_vars

\* A channel with two messages and a suspended child of get_multiple in its
\* registry, as the last stats request found it.
C18_Witness ==
    \E n \in DOMAIN channels, t \in Tasks :
        /\ channels[n].next_id = 2
        /\ tasks[t].owner # 0 /\ tasks[t].n0 < 2
        /\ t \in Range(channels[n].waiters)
        /\ stats = [name |-> n, subscribers |-> Len(channels[n].waiters),
                    messages |-> 2]

\* The task is suspended at `await fut` of get_next on channel n and its
\* future is pending: a condition on the task alone.
AwaitsPush(t, n) ==
    tasks[t].ch = n /\ tasks[t].pc = "wait" /\ tasks[t].fut = "pending"

\* C19: what a push to channel n does to a task depends on that task alone:
\* a task that awaits a pending future of n has it resolved with the
\* message of the push, whoever else is in the registry and wherever its
\* future stands in it, and every other task is left as it is; so the
\* message a call for the next message returns is the one pushed first
\* after its coroutine began.
C19_DeliveryIsBroadcast ==
    /\ [][\A n \in Names : PushedTo(n) =>
            \A t \in Tasks :
                tasks'[t] =
                    IF AwaitsPush(t, n)
                    THEN [tasks[t] EXCEPT
                            !.fut = "result",
                            !.futmsg = Message(n, Len(pushed'[n]),
                                               pushed'[n][Len(pushed'[n])])]
                    ELSE tasks[t]]_vars
    /\ [](\A t \in Tasks :
            tasks[t].mode = "next" /\ tasks[t].res # NoMessage =>
                tasks[t].res = channels[tasks[t].ch].messages[tasks[t].n1 + 1])

\* A push has resolved a call registered behind the child that a returned
\* get_multiple left in the registry, and that child too, with one message.
C19_Witness ==
    \E n \in DOMAIN channels, g \in Multis, l, w \in Tasks :
        /\ multis[g].pc = "done"
        /\ tasks[l].owner = g /\ tasks[w].owner = 0
        /\ channels[n].waiters = <<l, w>>
        /\ tasks[l].fut = "result" /\ tasks[w].fut = "result"
        /\ tasks[l].futmsg = tasks[w].futmsg

====
